---------------------------- MODULE Spec2Model ----------------------------
(***************************************************************************)
(* A model of the configurables package: the precedence algebra over the   *)
(* configuration sources (parse.py: Interpreter, ResolutionDefinition), the *)
(* merge performed by ResolutionDefinition.load, and the resolution done by *)
(* ConfigurationFactory.parse / __call__ (core.py) on a schema built with   *)
(* param / option / configurable (configurable.py).                         *)
(*                                                                         *)
(* Python objects with identity (ResolutionDefinition instances) live in a  *)
(* heap: a sequence of interpreter_order lists, a chain being named by its  *)
(* index.  The three Interpreter instances ENV, CLI, CFG are module-level   *)
(* singletons and are named by their `name` attribute.                      *)
(***************************************************************************)
EXTENDS Integers, Sequences, FiniteSets, TLC

VARIABLES
    heap,       \* heap[i]: interpreter_order of the i-th ResolutionDefinition
    result,     \* what the last evaluated statement returned or raised
    lastop,     \* the last evaluated statement (operator and operands)
    nops,       \* number of statements evaluated so far
    environ,    \* os.environ
    argv,       \* sys.argv
    files,      \* the configuration files on disk: path -> section -> dict
    loaded,     \* the last ResolutionDefinition.load: target, context, outcome
    pc,         \* where the program is: "build", "ready" (inputs set), "done"
    builder,    \* the ConfigurationBuilder of the decorated callable
    factory,    \* the ConfigurationFactory made by configurable(...)
    ret,        \* the last parse / __call__ of the factory and its outcome
    written,    \* the configuration a test wrote to a source, and where
    emitted,    \* the last emit of the factory: output path and outcome
    prev,       \* the resolve before the last one, when there were two
    passes,     \* what each invocation of the partial passed to the callable
    atbind      \* the schema and the load order as they were at configurable(...)

vars == <<heap, result, lastop, nops, environ, argv, files, loaded, pc,
         builder, factory, ret, written, emitted, prev, passes, atbind>>
schemaVars == <<builder, factory, ret>>

-----------------------------------------------------------------------------
(* Bounds of the model *)

\* statements evaluated in one behaviour of the order algebra
MaxOps == 3
\* statements that build orders before a load
MaxBuild == 2
\* stands for sys.getrecursionlimit(): frames before RecursionError
RecursionLimit == 4
\* command-line arguments after the program name
MaxArgs == 4
\* invocations of one partial object
MaxInvoke == 2

-----------------------------------------------------------------------------
(* Objects *)

InterpNames == {"ENV", "CLI", "CFG"}

\* A reference to one of the Interpreter singletons ENV, CLI, CFG
Interp(n) == [kind |-> "interp", name |-> n, id |-> 0]
\* A reference to the ResolutionDefinition stored at heap[i]
Chain(i) == [kind |-> "chain", name |-> "RD", id |-> i]
\* A raised exception
Exc(n) == [kind |-> "exc", name |-> n, id |-> 0]
\* No value (nothing evaluated yet)
NoObj == [kind |-> "none", name |-> "", id |-> 0]

ENV == Interp("ENV")
CLI == Interp("CLI")
CFG == Interp("CFG")
Interps == {ENV, CLI, CFG}

Chains(h) == {Chain(i) : i \in 1..Len(h)}
Objects(h) == Interps \cup Chains(h)

IsExc(o) == o.kind = "exc"
IsChain(o) == o.kind = "chain"
IsInterp(o) == o.kind = "interp"

\* `x in list`: Interpreter and ResolutionDefinition define no __eq__, so
\* membership is by identity
InList(x, list) == \E i \in 1..Len(list) : list[i] = x

\* The outcome of an evaluation: the heap after it and the value or exception
Outcome(h, r) == [heap |-> h, res |-> r]

-----------------------------------------------------------------------------
(* ResolutionDefinition: __init__, __lt__, __gt__ *)

RD_init(h, first_element) ==
    Outcome(Append(h, <<first_element>>), Chain(Len(h) + 1))

\* (mutant) __gt__ inserting at the front, as __lt__ does
RD_gt_Prepends(h, self, rhs) ==
    IF InList(rhs, h[self.id])
    THEN Outcome(h, Exc("InvalidOrdering"))
    ELSE Outcome([h EXCEPT ![self.id] = <<rhs>> \o @], self)

\* (mutant) __gt__ appending before it looks for the duplicate
RD_gt_AppendsFirst(h, self, rhs) ==
    IF InList(rhs, h[self.id])
    THEN Outcome([h EXCEPT ![self.id] = Append(@, rhs)], Exc("InvalidOrdering"))
    ELSE Outcome([h EXCEPT ![self.id] = Append(@, rhs)], self)

RD_gt(h, self, rhs) ==
    IF InList(rhs, h[self.id])
    THEN Outcome(h, Exc("InvalidOrdering"))
    ELSE Outcome([h EXCEPT ![self.id] = Append(@, rhs)], self)

RD_lt(h, self, rhs) ==
    IF InList(rhs, h[self.id])
    THEN Outcome(h, Exc("InvalidOrdering"))
    ELSE Outcome([h EXCEPT ![self.id] = <<rhs>> \o @], self)

-----------------------------------------------------------------------------
(* Interpreter: _coalese, __lt__, __gt__, and operator.lt / operator.gt     *)

\* operator.gt(lhs, rhs) / operator.lt(lhs, rhs) call type(lhs).__gt__ /
\* __lt__; for an Interpreter that is _coalese again, one frame deeper.
RECURSIVE Interpreter_coalese(_, _, _, _, _)
operator_apply(h, lhs, rhs, op, depth) ==
    IF IsChain(lhs)
    THEN IF op = "gt" THEN RD_gt(h, lhs, rhs) ELSE RD_lt(h, lhs, rhs)
    ELSE Interpreter_coalese(h, lhs, rhs, op, depth + 1)

Interpreter_coalese(h, self, rhs, op, depth) ==
    IF depth > RecursionLimit
    THEN Outcome(h, Exc("RecursionError"))
    ELSE IF IsChain(rhs)
         THEN operator_apply(h, self, rhs, op, depth)
         ELSE LET n == RD_init(h, self)
              IN  operator_apply(n.heap, n.res, rhs, op, depth)

Interpreter_gt(h, self, rhs) == Interpreter_coalese(h, self, rhs, "gt", 1)
Interpreter_lt(h, self, rhs) == Interpreter_coalese(h, self, rhs, "lt", 1)

\* The expression `lhs > rhs` or `lhs < rhs`.  A ResolutionDefinition that
\* was created by an expression that then raised is unreachable garbage and
\* is dropped from the heap; the objects that existed before stay as the
\* expression left them.
Compare(h, lhs, op, rhs) ==
    LET o == IF IsChain(lhs)
             THEN operator_apply(h, lhs, rhs, op, 0)
             ELSE IF op = "gt" THEN Interpreter_gt(h, lhs, rhs)
                               ELSE Interpreter_lt(h, lhs, rhs)
    IN  IF IsExc(o.res) THEN Outcome(SubSeq(o.heap, 1, Len(h)), o.res) ELSE o

\* The Python comparison chain `a op1 b op2 c`, which the language defines
\* as `(a op1 b) and (b op2 c)` with b evaluated once.  A
\* ResolutionDefinition is truthy (no __bool__, no __len__), so the value is
\* that of `b op2 c` unless `a op1 b` raises.  For an Interpreter a the
\* chain made by `a op1 b` is referenced by nothing afterwards and is
\* dropped.
ChainedCompare(h, a, op1, b, op2, c) ==
    LET first == Compare(h, a, op1, b)
    IN  IF IsExc(first.res)
        THEN first
        ELSE Compare(IF IsChain(a) THEN first.heap ELSE h, b, op2, c)

-----------------------------------------------------------------------------
(* Values *)

\* Raw and resolved values.  Every value carries the same fields so that any
\* two values can be compared: a str, None, a list of str, an int.
StrV(x) == [tag |-> "str", s |-> x, n |-> 0, l |-> <<>>]
NoneV == [tag |-> "none", s |-> "", n |-> 0, l |-> <<>>]
ListV(xs) == [tag |-> "list", s |-> "", n |-> 0, l |-> xs]
IntV(i) == [tag |-> "int", s |-> "", n |-> i, l |-> <<>>]

\* The empty dict
EmptyDict == [k \in {} |-> NoneV]

\* Dict literals
Dict1(k, v) == [x \in {k} |-> v]
Dict2(k1, v1, k2, v2) == [x \in {k1, k2} |-> IF x = k1 THEN v1 ELSE v2]

\* (mutant) an update that keeps the values already present
DictUpdate_KeepsOld(d, e) ==
    [k \in DOMAIN d \cup DOMAIN e |-> IF k \in DOMAIN d THEN d[k] ELSE e[k]]

\* dict.update: d.update(e)
DictUpdate(d, e) ==
    [k \in DOMAIN d \cup DOMAIN e |-> IF k \in DOMAIN e THEN e[k] ELSE d[k]]

\* What a load, a parse or a call did: returned a value, raised, or never
\* returned
Returned(m) == [status |-> "ok", exc |-> "", map |-> m]
Raised(e) == [status |-> "raise", exc |-> e, map |-> EmptyDict]
Hangs == [status |-> "hang", exc |-> "", map |-> EmptyDict]
NotRun == [status |-> "none", exc |-> "", map |-> EmptyDict]

-----------------------------------------------------------------------------
(* The sources: Env, Cli, Cfg *)

\* A token of sys.argv: dd says whether it starts with "--", text is the
\* token with that prefix stripped (arg[2:]) or the whole token
Flag(x) == [dd |-> TRUE, text |-> x]
Word(x) == [dd |-> FALSE, text |-> x]

\* Env.interpret: dict(os.environ)
Env_interpret(env) == Returned(env)

\* (mutant) a further value replaces the one held
Cli_accumulate_KeepsLast(current_val, arg) == StrV(arg)

\* The if / elif / elif of the inner loop (lines 689-694): what the key
\* holds after one more value
Cli_accumulate(current_val, arg) ==
    IF current_val.tag = "str"
        THEN ListV(<<current_val.s, arg>>)
    ELSE IF current_val.tag = "list"
        THEN ListV(Append(current_val.l, arg))
    ELSE StrV(arg)

\* Cli.interpret, the inner loop (lines 686-695): consume the tokens that
\* follow a flag, accumulating them under param_name
RECURSIVE Cli_inner(_, _, _, _)
Cli_inner(args, cursor, acc, param_name) ==
    IF cursor <= Len(args) /\ ~args[cursor].dd
    THEN LET arg == args[cursor].text
             current_val == acc[param_name]
             new == Cli_accumulate(current_val, arg)
         IN  Cli_inner(args, cursor + 1,
                       [acc EXCEPT ![param_name] = new], param_name)
    ELSE [cursor |-> cursor, acc |-> acc]

\* Cli.interpret, the outer loop (lines 679-696).  args is sys.argv, indexed
\* from 1 here, so the scan starts at index 2 (Python's cursor = 1).  A token
\* without the prefix at the outer loop leaves cursor unchanged: the loop
\* never ends.
RECURSIVE Cli_outer(_, _, _)
Cli_outer(args, cursor, acc) ==
    IF cursor <= Len(args)
    THEN IF args[cursor].dd
         THEN LET param_name == args[cursor].text
                  acc1 == DictUpdate(acc, [k \in {param_name} |-> NoneV])
                  r == Cli_inner(args, cursor + 1, acc1, param_name)
              IN  Cli_outer(args, r.cursor, r.acc)
         ELSE Hangs
    ELSE Returned(acc)

Cli_interpret(args) == Cli_outer(args, 2, EmptyDict)

\* parse_ini (lines 337-353) on the parsed content of an INI file: a
\* function from section names to dicts of str.  ConfigParser.sections()
\* leaves out "DEFAULT", and a section proxy also shows the DEFAULT keys.
parse_ini(fs, config_path, key) ==
    IF config_path \notin DOMAIN fs
    THEN Raised("FileNotFoundError")
    ELSE LET config == fs[config_path]
             established_keys == DOMAIN config \ {"DEFAULT"}
         IN  IF key \notin established_keys
             THEN Raised("KeyError")
             ELSE Returned(DictUpdate(
                      IF "DEFAULT" \in DOMAIN config
                      THEN config["DEFAULT"] ELSE EmptyDict,
                      config[key]))

\* The resolution context: config_path ("" when the key is absent) and
\* parse_kwargs["section"]
Context(path, section) == [config_path |-> path, section |-> section]

\* path.suffix of the paths of the model
Suffix(path) ==
    CASE path \in {"c.ini", "o.ini"} -> ".ini"
      [] path = "o.conf" -> ".conf"
      [] path \in {"c.xyz", "o.xyz"} -> ".xyz"
      [] OTHER -> ""

\* PARSING_REGISTRY after import: the extensions registered, in order, and
\* the parser of each
PARSING_REGISTRY == <<".ini", ".conf", ".yaml", ".yml", ".toml">>
ParserOf(extension) ==
    CASE extension \in {".ini", ".conf"} -> "parse_ini"
      [] extension \in {".yaml", ".yml"} -> "parse_yaml"
      [] extension = ".toml" -> "parse_toml"

\* autoparse_config (lines 264-268):
\* func = PARSING_REGISTRY.get(path.suffix, PARSING_REGISTRY[".ini"]).
\* No path of the model has a YAML or TOML suffix, so func is parse_ini.
autoparse_config(fs, path, section) ==
    LET func == IF \E i \in DOMAIN PARSING_REGISTRY : PARSING_REGISTRY[i] = Suffix(path)
                THEN ParserOf(Suffix(path))
                ELSE ParserOf(".ini")
    IN  IF func = "parse_ini"
        THEN parse_ini(fs, path, section)
        ELSE Raised("ImportError")

\* Cfg.interpret (lines 725-733)
Cfg_interpret(fs, context) ==
    IF context.config_path = ""
    THEN Returned(EmptyDict)
    ELSE autoparse_config(fs, context.config_path, context.section)

\* The process-wide inputs of the sources
World(env, args, fs) == [environ |-> env, argv |-> args, files |-> fs]

\* Interpreter.load
Interpreter_load(w, name, context) ==
    IF name = "ENV" THEN Env_interpret(w.environ)
    ELSE IF name = "CLI" THEN Cli_interpret(w.argv)
    ELSE Cfg_interpret(w.files, context)

-----------------------------------------------------------------------------
(* ResolutionDefinition.load *)

\* load(**context) of the object o: an Interpreter or a ResolutionDefinition
\* (lines 229-235).  The loop over interpreter_order is the recursion on i;
\* an interpreter that raises or hangs ends the load there.
RECURSIVE RD_load_from(_, _, _, _, _, _, _)
Object_load(h, w, o, context, depth) ==
    IF depth > RecursionLimit
    THEN Raised("RecursionError")
    ELSE IF IsInterp(o)
         THEN Interpreter_load(w, o.name, context)
         ELSE RD_load_from(h, w, o, context, depth, 1, EmptyDict)

RD_load_from(h, w, self, context, depth, i, payload) ==
    IF i > Len(h[self.id])
    THEN Returned(payload)
    ELSE LET kwargs == Object_load(h, w, h[self.id][i], context, depth + 1)
         IN  IF kwargs.status # "ok"
             THEN kwargs
             ELSE RD_load_from(h, w, self, context, depth, i + 1,
                               DictUpdate(payload, kwargs.map))

RD_load(h, w, o, context) == Object_load(h, w, o, context, 1)

-----------------------------------------------------------------------------
(* Statements of a program that builds and loads orders *)

Ops == {"gt", "lt"}

Stmt(kind, a, op1, b, op2, c, list) ==
    [kind |-> kind, a |-> a, op1 |-> op1, b |-> b, op2 |-> op2, c |-> c,
     list |-> list]
NoStmt == Stmt("none", NoObj, "", NoObj, "", NoObj, <<>>)

Load(target, context, outcome) ==
    [target |-> target, context |-> context, out |-> outcome]
NoLoad == Load(NoObj, Context("", ""), NotRun)

\* The world the sources read
TheWorld == World(environ, argv, files)

\* `lhs > rhs` or `lhs < rhs`, any two objects
EvalCompare(lhs, op, rhs) ==
    /\ pc = "build"
    /\ LET o == Compare(heap, lhs, op, rhs)
       IN  /\ heap' = o.heap
           /\ result' = o.res
    /\ lastop' = Stmt("cmp", lhs, op, rhs, "", NoObj, <<>>)
    /\ nops' = nops + 1
    /\ UNCHANGED <<environ, argv, files, loaded, pc, schemaVars, written, emitted,
                   prev, passes, atbind>>

\* `a op1 b op2 c` written with three Interpreters, as in
\* `default_order = CLI > CFG > ENV` (configurable.py line 225)
EvalChained(a, op1, b, op2, c) ==
    /\ pc = "build"
    /\ LET o == ChainedCompare(heap, a, op1, b, op2, c)
       IN  /\ heap' = o.heap
           /\ result' = o.res
    /\ lastop' = Stmt("chained", a, op1, b, op2, c, <<>>)
    /\ nops' = nops + 1
    /\ UNCHANGED <<environ, argv, files, loaded, pc, schemaVars, written, emitted,
                   prev, passes, atbind>>

\* functools.reduce(lambda lhs, rhs: lhs op rhs, list) from position i on,
\* acc being the value so far; an exception ends the reduction
RECURSIVE Reduce(_, _, _, _, _)
Reduce(h, acc, op, list, i) ==
    IF i > Len(list)
    THEN Outcome(h, acc)
    ELSE LET o == Compare(h, acc, op, list[i])
         IN  IF IsExc(o.res) THEN o ELSE Reduce(o.heap, o.res, op, list, i + 1)

\* `reduce(lambda lhs, rhs: lhs > rhs, ordering)` and its `<` twin
\* (tests/test_resolution_orderings.py lines 49 and 104) on a list of
\* distinct Interpreters; a one-element list reduces to the Interpreter
EvalFold(list, op) ==
    /\ pc = "build"
    /\ LET o == Reduce(heap, list[1], op, list, 2)
       IN  /\ heap' = IF IsExc(o.res) THEN SubSeq(o.heap, 1, Len(heap)) ELSE o.heap
           /\ result' = o.res
    /\ lastop' = Stmt("fold", NoObj, op, NoObj, "", NoObj, list)
    /\ nops' = nops + 1
    /\ UNCHANGED <<environ, argv, files, loaded, pc, schemaVars, written, emitted,
                   prev, passes, atbind>>

\* The environment, the argument vector and the files are put in place
\* (monkeypatch.setenv, monkeypatch.setattr("sys.argv", ...), a file
\* written) once the orders are built
SetWorld(env, args, fs) ==
    /\ pc = "build"
    /\ environ' = env
    /\ argv' = args
    /\ files' = fs
    /\ pc' = "ready"
    /\ UNCHANGED <<heap, result, lastop, nops, loaded, schemaVars, written, emitted,
                   prev, passes, atbind>>

\* target.load(**context)
EvalLoad(target, context) ==
    /\ pc = "ready"
    /\ loaded' = Load(target, context, RD_load(heap, TheWorld, target, context))
    /\ pc' = "done"
    /\ UNCHANGED <<heap, result, lastop, nops, environ, argv, files, schemaVars, written, emitted,
                   prev, passes, atbind>>

-----------------------------------------------------------------------------
(* Type functions *)

\* The outcome of applying a type function
OkVal(v) == [status |-> "ok", exc |-> "", val |-> v]
BadVal(e) == [status |-> "raise", exc |-> e, val |-> NoneV]

\* The decimal strings of the model and the integers they denote
IntOf(x) == CASE x = "1" -> 1 [] x = "5" -> 5 [] x = "7" -> 7 [] x = "8" -> 8
                 [] x = "9" -> 9
Numerals == {"1", "5", "7", "8", "9"}

\* str(list): the string that is the repr of the list, kept as the list
StrOfList(xs) == [tag |-> "str", s |-> "repr", n |-> 0, l |-> xs]

\* str(value) of a configuration value (a str or an int)
NumeralOf(n) == CHOOSE x \in Numerals : IntOf(x) = n
StrOf(v) == IF v.tag = "int" THEN StrV(NumeralOf(v.n)) ELSE v

\* The table of the lookup type function, `{"lo": 1, "hi": 5}.__getitem__`:
\* a callable given as type= that raises KeyError for a key it lacks
LookupKeys == {"lo", "hi"}
Lookup(x) == CASE x = "lo" -> 1 [] x = "hi" -> 5

\* The type functions of the model's schemas: str, int and the lookup,
\* applied to a raw value (a str, a list of str, or None)
Coerce(type, raw) ==
    IF type = "key"
    THEN IF raw.tag = "str" /\ raw.s \in LookupKeys THEN OkVal(IntV(Lookup(raw.s)))
         ELSE IF raw.tag = "list" THEN BadVal("TypeError")
         ELSE BadVal("KeyError")
    ELSE IF type = "str"
    THEN IF raw.tag = "str" THEN OkVal(raw)
         ELSE IF raw.tag = "none" THEN OkVal(StrV("None"))
         ELSE IF raw.tag = "int" THEN OkVal(raw)
         ELSE OkVal(StrOfList(raw.l))
    ELSE IF raw.tag = "str"
         THEN IF raw.s \in Numerals THEN OkVal(IntV(IntOf(raw.s)))
                                    ELSE BadVal("ValueError")
         ELSE IF raw.tag = "int" THEN OkVal(raw)
         ELSE BadVal("TypeError")

-----------------------------------------------------------------------------
(* ConfigurationBuilder, param, option, configurable *)

Parameter(name, type) == [name |-> name, type |-> type]
Option(name, type, default) == [name |-> name, type |-> type, default |-> default]

\* A ConfigurationBuilder: parameters and options are dicts keyed by name,
\* kept here as the sequence of their values in insertion order.  made is
\* FALSE while the callable is still bare (no decorator applied).
Builder(made, parameters, options) ==
    [made |-> made, parameters |-> parameters, options |-> options]
NoBuilder == Builder(FALSE, <<>>, <<>>)

Names(fields) == {fields[i].name : i \in 1..Len(fields)}
IndexOf(fields, name) == CHOOSE i \in 1..Len(fields) : fields[i].name = name
Field(fields, name) == fields[IndexOf(fields, name)]

\* (mutant) every assignment adds an entry
DictSet_AlwaysAppends(fields, field) == Append(fields, field)

\* dict[name] = field: a key already present keeps its position
DictSet(fields, field) ==
    IF field.name \in Names(fields)
    THEN [fields EXCEPT ![IndexOf(fields, field.name)] = field]
    ELSE Append(fields, field)

add_parameter(b, name, type) ==
    Builder(TRUE, DictSet(b.parameters, Parameter(name, type)), b.options)

add_option(b, name, type, default) ==
    Builder(TRUE, b.parameters, DictSet(b.options, Option(name, type, default)))

\* A ConfigurationFactory; it holds the builder itself (not a copy), so the
\* schema it resolves is the variable builder.  order names how the order
\* was written, configuration_order is the object.
Factory(bound, section, order, configuration_order) ==
    [bound |-> bound, section |-> section, order |-> order,
     configuration_order |-> configuration_order]
NoFactory == Factory(FALSE, "", NoStmt, NoObj)

\* `order=None`
NoOrder == Stmt("default", NoObj, "", NoObj, "", NoObj, <<>>)

\* `order=C` for an object C made by an earlier statement
OrderObject(o) == Stmt("obj", o, "", NoObj, "", NoObj, <<>>)

\* The interpreter_order an order object holds: the list of a
\* ResolutionDefinition, the Interpreter itself otherwise
InterpreterOrder(h, o) == IF IsInterp(o) THEN <<o>> ELSE h[o.id]

\* What configurable(...) was given: the builder's fields and the order's
\* interpreter_order, as they were then
Binding(b, order) == [builder |-> b, order |-> order]
NoBinding == Binding(NoBuilder, <<>>)

\* The evaluation of the `order=` argument: None, an object made before,
\* ResolutionDefinition(X), or a reduce over a list of distinct Interpreters
OrderArgument(h, order) ==
    IF order.kind = "default"
    THEN Outcome(h, NoObj)
    ELSE IF order.kind = "obj"
    THEN Outcome(h, order.a)
    ELSE IF order.kind = "init"
    THEN RD_init(h, order.list[1])
    ELSE Reduce(h, order.list[1], order.op1, order.list, 2)

\* configurable(config_section, order)(config_builder), lines 215-232, for
\* a config_builder that is a ConfigurationBuilder: default_order is
\* computed on every call, and used when order is None
configurable(h, config_section, order) ==
    LET given == OrderArgument(h, order)
        default_order == ChainedCompare(given.heap, CLI, "gt", CFG, "gt", ENV)
    IN  [heap |-> default_order.heap,
         factory |-> Factory(TRUE,
                             IF config_section = "" THEN "DEFAULT" ELSE config_section,
                             order,
                             IF order.kind = "default" THEN default_order.res
                                                       ELSE given.res)]

-----------------------------------------------------------------------------
(* ConfigurationFactory: _resolve_param, _resolve_option, parse, __call__ *)

\* _resolve_param (lines 229-231)
Factory_resolve_param(b, key, raw_values) ==
    IF key \notin DOMAIN raw_values
    THEN BadVal("KeyError")
    ELSE Coerce(Field(b.parameters, key).type, raw_values[key])

\* (mutant) the default goes through the type function too
Factory_resolve_option_CoercesDefault(b, key, raw_values) ==
    IF key \notin DOMAIN raw_values
    THEN Coerce(Field(b.options, key).type, Field(b.options, key).default)
    ELSE Coerce(Field(b.options, key).type, raw_values[key])

\* _resolve_option (lines 249-255)
Factory_resolve_option(b, key, raw_values) ==
    IF key \notin DOMAIN raw_values
    THEN OkVal(Field(b.options, key).default)
    ELSE Coerce(Field(b.options, key).type, raw_values[key])

\* (mutant) a parameter found nowhere is left out of the result
Factory_param_or_override_SkipsMissing(b, key, raw_values, overrides) ==
    LET r == Factory_resolve_param(b, key, raw_values)
    IN  IF r.status = "raise" /\ r.exc = "KeyError"
        THEN IF key \in DOMAIN overrides THEN OkVal(overrides[key])
                                        ELSE OkVal(NoneV)
        ELSE r

\* The body of the loop over the parameters (lines 360-363): a KeyError of
\* _resolve_param falls back to overrides[parameter], which raises KeyError
\* when the override is absent too
Factory_param_or_override(b, key, raw_values, overrides) ==
    LET r == Factory_resolve_param(b, key, raw_values)
    IN  IF r.status = "raise" /\ r.exc = "KeyError"
        THEN IF key \in DOMAIN overrides THEN OkVal(overrides[key])
                                        ELSE BadVal("KeyError")
        ELSE r

\* The loop over builder.parameters (lines 359-363), from position i on
RECURSIVE Factory_parse_params(_, _, _, _, _)
Factory_parse_params(b, raw_values, overrides, i, kwargs) ==
    IF i > Len(b.parameters)
    THEN Returned(kwargs)
    ELSE LET key == b.parameters[i].name
             r == Factory_param_or_override(b, key, raw_values, overrides)
         IN  IF r.status # "ok"
             THEN Raised(r.exc)
             ELSE Factory_parse_params(b, raw_values, overrides, i + 1,
                                       DictUpdate(kwargs, Dict1(key, r.val)))

\* The loop over builder.options (lines 365-367), from position i on
RECURSIVE Factory_parse_options(_, _, _, _)
Factory_parse_options(b, raw_values, i, kwargs) ==
    IF i > Len(b.options)
    THEN Returned(kwargs)
    ELSE LET key == b.options[i].name
             r == Factory_resolve_option(b, key, raw_values)
         IN  IF r.status # "ok"
             THEN Raised(r.exc)
             ELSE Factory_parse_options(b, raw_values, i + 1,
                                        DictUpdate(kwargs, Dict1(key, r.val)))

\* (mutant) the overrides are laid down first and the resolved fields on top
Factory_apply_overrides_FieldsOnTop(kwargs, overrides) ==
    DictUpdate(overrides, kwargs)

\* kwargs.update(overrides) (line 368)
Factory_apply_overrides(kwargs, overrides) == DictUpdate(kwargs, overrides)

\* (mutant) the section bound at configurable(...) is used whatever the call says
Factory_context_IgnoresSection(f, section, filepath) ==
    Context(filepath, f.section)

\* The context parse builds (lines 351-356); "" stands for None
Factory_context(f, section, filepath) ==
    Context(filepath, IF section = "" THEN f.section ELSE section)

\* (mutant) a section given to a call becomes the factory's section
Factory_after_resolve_KeepsSection(f, section, filepath) ==
    [f EXCEPT !.section = IF section = "" THEN @ ELSE section]

\* The factory after parse (lines 351-369): section and _filepath are
\* locals (`section = self.section` reads the attribute), nothing is
\* assigned to self
Factory_after_resolve(f, section, filepath) == f

\* (mutant) the options are resolved whatever _ignore_options says
Factory_parse_loaded_KeepsOptions(b, parsed_opts, ignore_options, overrides) ==
    IF parsed_opts.status # "ok"
    THEN parsed_opts
    ELSE LET ps == Factory_parse_params(b, parsed_opts.map, overrides, 1, EmptyDict)
         IN  IF ps.status # "ok" THEN ps
             ELSE LET os == Factory_parse_options(b, parsed_opts.map, 1, ps.map)
                  IN  IF os.status # "ok" THEN os
                      ELSE Returned(Factory_apply_overrides(os.map, overrides))

\* (mutant) the loaded mapping is the start of the result
Factory_parse_loaded_PassesSources(b, parsed_opts, ignore_options, overrides) ==
    IF parsed_opts.status # "ok"
    THEN parsed_opts
    ELSE LET ps == Factory_parse_params(b, parsed_opts.map, overrides, 1,
                                        parsed_opts.map)
         IN  IF ps.status # "ok" THEN ps
             ELSE LET os == IF ignore_options THEN ps
                            ELSE Factory_parse_options(b, parsed_opts.map, 1, ps.map)
                  IN  IF os.status # "ok" THEN os
                      ELSE Returned(Factory_apply_overrides(os.map, overrides))

\* parse after the load (lines 357-369), parsed_opts being what
\* configuration_order.load gave
Factory_parse_loaded(b, parsed_opts, ignore_options, overrides) ==
    IF parsed_opts.status # "ok"
    THEN parsed_opts
    ELSE LET ps == Factory_parse_params(b, parsed_opts.map, overrides, 1, EmptyDict)
         IN  IF ps.status # "ok" THEN ps
             ELSE LET os == IF ignore_options THEN ps
                            ELSE Factory_parse_options(b, parsed_opts.map, 1, ps.map)
                  IN  IF os.status # "ok" THEN os
                      ELSE Returned(Factory_apply_overrides(os.map, overrides))

\* ConfigurationFactory.parse (lines 351-369)
Factory_parse(h, w, b, f, section, filepath, ignore_options, overrides) ==
    Factory_parse_loaded(b,
        RD_load(h, w, f.configuration_order, Factory_context(f, section, filepath)),
        ignore_options, overrides)

-----------------------------------------------------------------------------
(* Statements of a program that builds a schema, binds it and resolves *)

Call(op, section, filepath, ignore_options, overrides, merged, out, called, passed) ==
    [op |-> op, section |-> section, filepath |-> filepath,
     ignore_options |-> ignore_options, overrides |-> overrides,
     merged |-> merged, out |-> out, called |-> called, passed |-> passed]
NoCall == Call("none", "", "", FALSE, EmptyDict, NotRun, NotRun, FALSE, EmptyDict)

\* param(name, type)(obj) (lines 104-115): obj is the builder, or the bare
\* callable, for which a builder is made first
DecorateParam(name, type) ==
    /\ pc = "build"
    /\ builder' = add_parameter(builder, name, type)
    /\ UNCHANGED <<heap, result, lastop, nops, environ, argv, files, loaded, pc,
                   factory, ret, written, emitted,
                   prev, passes, atbind>>

\* option(name, type, default)(obj) (lines 158-169)
DecorateOption(name, type, default) ==
    /\ pc = "build"
    /\ builder' = add_option(builder, name, type, default)
    /\ UNCHANGED <<heap, result, lastop, nops, environ, argv, files, loaded, pc,
                   factory, ret, written, emitted,
                   prev, passes, atbind>>

\* ConfigurationBuilder(parameters={}, options={}, function=obj), made
\* directly (core.py lines 83-102)
NewBuilder ==
    /\ pc = "build"
    /\ ~builder.made
    /\ builder' = Builder(TRUE, <<>>, <<>>)
    /\ UNCHANGED <<heap, result, lastop, nops, environ, argv, files, loaded, pc,
                   factory, ret, written, emitted,
                   prev, passes, atbind>>

\* config_builder.add_parameter(name, type), called on the builder
AddParameter(name, type) ==
    /\ pc = "build"
    /\ builder.made
    /\ builder' = add_parameter(builder, name, type)
    /\ lastop' = Stmt("add_parameter", NoObj, "", NoObj, "", NoObj,
                      <<Parameter(name, type)>>)
    /\ result' = NoObj
    /\ UNCHANGED <<heap, nops, environ, argv, files, loaded, pc, factory, ret,
                   written, emitted,
                   prev, passes, atbind>>

\* config_builder.add_option(name, type, default), called on the builder
AddOption(name, type, default) ==
    /\ pc = "build"
    /\ builder.made
    /\ builder' = add_option(builder, name, type, default)
    /\ lastop' = Stmt("add_option", NoObj, "", NoObj, "", NoObj,
                      <<Option(name, type, default)>>)
    /\ result' = NoObj
    /\ UNCHANGED <<heap, nops, environ, argv, files, loaded, pc, factory, ret,
                   written, emitted,
                   prev, passes, atbind>>

\* configurable(config_section, order)(obj) (lines 215-232): ValueError
\* unless obj is a ConfigurationBuilder
Bind(config_section, order) ==
    /\ pc = "build"
    /\ ~factory.bound
    /\ IF builder.made
       THEN LET c == configurable(heap, config_section, order)
            IN  /\ heap' = c.heap
                /\ factory' = c.factory
                /\ result' = NoObj
       ELSE /\ result' = Exc("ValueError")
            /\ UNCHANGED <<heap, factory>>
    /\ UNCHANGED <<lastop, nops, environ, argv, files, loaded, pc, builder, ret,
                   written, emitted, prev, passes, atbind>>

\* configurable(config_section, order=o)(config_builder) for an order object
\* o made before, in a program that keeps what it gave: the builder's
\* fields and o's interpreter_order as they are at this point
BindNoting(config_section, o) ==
    /\ pc = "build"
    /\ ~factory.bound
    /\ builder.made
    /\ LET c == configurable(heap, config_section, OrderObject(o))
       IN  /\ heap' = c.heap
           /\ factory' = c.factory
           /\ atbind' = Binding(builder,
                  InterpreterOrder(c.heap, c.factory.configuration_order))
    /\ result' = NoObj
    /\ UNCHANGED <<lastop, nops, environ, argv, files, loaded, pc, builder, ret,
                   written, emitted, prev, passes>>

\* factory.parse(section, _filepath, _ignore_options, **overrides)
EvalParse(section, filepath, ignore_options, overrides) ==
    /\ pc = "ready"
    /\ LET context == Factory_context(factory, section, filepath)
           merged == RD_load(heap, TheWorld, factory.configuration_order, context)
           out == Factory_parse(heap, TheWorld, builder, factory, section,
                                filepath, ignore_options, overrides)
       IN  ret' = Call("parse", section, filepath, ignore_options, overrides,
                       merged, out, FALSE, EmptyDict)
    /\ factory' = Factory_after_resolve(factory, section, filepath)
    /\ pc' = "done"
    /\ UNCHANGED <<heap, result, lastop, nops, environ, argv, files, loaded,
                   builder, written, emitted,
                   prev, passes, atbind>>

\* factory(_filepath, _section, **overrides) (lines 312-315): parse, then
\* the bound callable with the result as keyword arguments; the callable of
\* the model returns its keyword arguments
EvalCall(section, filepath, overrides) ==
    /\ pc = "ready"
    /\ LET context == Factory_context(factory, section, filepath)
           merged == RD_load(heap, TheWorld, factory.configuration_order, context)
           kwargs == Factory_parse(heap, TheWorld, builder, factory, section,
                                   filepath, FALSE, overrides)
       IN  ret' = Call("call", section, filepath, FALSE, overrides, merged,
                       kwargs, kwargs.status = "ok", kwargs.map)
    /\ factory' = Factory_after_resolve(factory, section, filepath)
    /\ pc' = "done"
    /\ UNCHANGED <<heap, result, lastop, nops, environ, argv, files, loaded,
                   builder, written, emitted,
                   prev, passes, atbind>>

-----------------------------------------------------------------------------
(* Emission: autoemit_config, emit_init, ConfigurationFactory.emit *)

\* What an emit did: returned the path written, or raised; listed holds the
\* extensions the error message enumerates
EmitReturned(path) == [status |-> "ok", exc |-> "", listed |-> <<>>, path |-> path]
EmitRaised(e, listed) == [status |-> "raise", exc |-> e, listed |-> listed, path |-> ""]
EmitHangs == [status |-> "hang", exc |-> "", listed |-> <<>>, path |-> ""]
EmitNotRun == [status |-> "none", exc |-> "", listed |-> <<>>, path |-> ""]

Emit(output_path, out) == [output_path |-> output_path, out |-> out]
NoEmit == Emit("", EmitNotRun)

\* EMISSION_REGISTRY after import: the extensions registered, in order
\* (emission.py line 136); both name emit_init
EMISSION_REGISTRY == <<".ini", ".conf">>

\* str(value) as ConfigParser.read_dict applies it to a value that is not
\* None
StrOfValue(v) == IF v.tag = "list" THEN StrOfList(v.l) ELSE StrOf(v)

\* emit_init (emission.py lines 183-188): parser[header] = configuration
\* raises TypeError for a None value, before the file is opened; otherwise
\* the file holds the one section with every value as a string
emit_init(fs, config_path, header, configuration) ==
    IF \E k \in DOMAIN configuration : configuration[k] = NoneV
    THEN [files |-> fs, out |-> EmitRaised("TypeError", <<>>)]
    ELSE [files |-> [q \in DOMAIN fs \cup {config_path} |->
                        IF q = config_path
                        THEN Dict1(header, [k \in DOMAIN configuration |->
                                               StrOfValue(configuration[k])])
                        ELSE fs[q]],
          out |-> EmitReturned(config_path)]

\* (mutant) an extension that is not registered is emitted as .ini
autoemit_config_FallsBackToIni(fs, path, configuration, section) ==
    emit_init(fs, path, section, configuration)

\* autoemit_config (emission.py lines 86-96); path is a pathlib.Path
autoemit_config(fs, path, configuration, section) ==
    IF \A i \in DOMAIN EMISSION_REGISTRY : EMISSION_REGISTRY[i] # Suffix(path)
    THEN [files |-> fs, out |-> EmitRaised("KeyError", EMISSION_REGISTRY)]
    ELSE emit_init(fs, path, section, configuration)

\* factory.emit(output_path, _section, _filepath, _ignore_options,
\* **overrides) (core.py lines 407-414): parse, then autoemit_config under
\* the call's section or the bound one
EvalEmit(output_path, section, filepath, ignore_options, overrides) ==
    /\ pc = "ready"
    /\ LET context == Factory_context(factory, section, filepath)
           merged == RD_load(heap, TheWorld, factory.configuration_order, context)
           kwargs == Factory_parse(heap, TheWorld, builder, factory, section,
                                   filepath, ignore_options, overrides)
           e == autoemit_config(files, output_path, kwargs.map,
                                IF section = "" THEN factory.section ELSE section)
       IN  /\ ret' = Call("emit", section, filepath, ignore_options, overrides,
                          merged, kwargs, FALSE, EmptyDict)
           /\ IF kwargs.status = "ok"
              THEN /\ files' = e.files
                   /\ emitted' = Emit(output_path, e.out)
              ELSE /\ files' = files
                   /\ emitted' = Emit(output_path,
                                      IF kwargs.status = "hang" THEN EmitHangs
                                      ELSE EmitRaised(kwargs.exc, <<>>))
    /\ factory' = Factory_after_resolve(factory, section, filepath)
    /\ pc' = "done"
    /\ UNCHANGED <<heap, result, lastop, nops, environ, argv, loaded, builder, written,
                   prev, passes, atbind>>

-----------------------------------------------------------------------------
(* partial, and programs that resolve twice *)

\* (mutant) the partial resolves when it is invoked
partial_call_ResolvesLate(h, w, b, f, call) ==
    Factory_parse(h, w, b, f, call.section, call.filepath, FALSE, call.overrides).map

\* functools.partial(self.builder.function, **kwargs)() (core.py line 448):
\* the keywords stored when partial() ran are what the callable is passed
partial_call(h, w, b, f, call) == call.out.map

\* factory.partial(_filepath, _section, **overrides) (core.py lines
\* 447-448): parse, then the partial object, which exists when parse returned
EvalPartial(section, filepath, overrides) ==
    /\ pc = "ready"
    /\ LET context == Factory_context(factory, section, filepath)
           merged == RD_load(heap, TheWorld, factory.configuration_order, context)
           kwargs == Factory_parse(heap, TheWorld, builder, factory, section,
                                   filepath, FALSE, overrides)
       IN  ret' = Call("partial", section, filepath, FALSE, overrides, merged,
                       kwargs, FALSE, EmptyDict)
    /\ passes' = <<>>
    /\ factory' = Factory_after_resolve(factory, section, filepath)
    /\ pc' = "done"
    /\ UNCHANGED <<heap, result, lastop, nops, environ, argv, files, loaded,
                   builder, written, emitted, prev, atbind>>

\* `partial()`: the object partial() returned is invoked without arguments
\* (tests/test_building_configuration.py line 90)
Invoke ==
    /\ pc = "done"
    /\ ret.op = "partial"
    /\ ret.out.status = "ok"
    /\ Len(passes) < MaxInvoke
    /\ passes' = Append(passes, partial_call(heap, TheWorld, builder, factory, ret))
    /\ UNCHANGED <<heap, result, lastop, nops, environ, argv, files, loaded, pc,
                   builder, factory, ret, written, emitted, prev, atbind>>

\* The environment, the argument vector and the files are changed after
\* the partial was made
ChangeWorld(env, args, fs) ==
    /\ pc = "done"
    /\ ret.op = "partial"
    /\ environ' = env
    /\ argv' = args
    /\ files' = fs
    /\ UNCHANGED <<heap, result, lastop, nops, loaded, pc, builder, factory, ret,
                   written, emitted, prev, passes, atbind>>

\* The program goes on to a second resolve; the first is kept in prev
Again ==
    /\ pc = "done"
    /\ ret.op # "none"
    /\ prev.op = "none"
    /\ prev' = ret
    /\ pc' = "ready"
    /\ UNCHANGED <<heap, result, lastop, nops, environ, argv, files, loaded,
                   builder, factory, ret, written, emitted, passes, atbind>>

-----------------------------------------------------------------------------
(* The writers of the tests: a configuration is put into one source *)

\* type(value): the type function the tests register for a value
TypeOf(v) == IF v.tag = "int" THEN "int" ELSE "str"

\* The strings of the model that start with "--", and what follows the
\* prefix (arg[2:])
DashPrefixed == {"--x"}
AfterDashes(x) == CASE x = "--x" -> "x"

\* A string as a token of sys.argv
Token(x) == IF x \in DashPrefixed THEN Flag(AfterDashes(x)) ELSE Word(x)

\* write_env_configuration: monkeypatch.setenv(key, str(value)) per item
write_env_configuration(env, configuration) ==
    DictUpdate(env, [k \in DOMAIN configuration |-> StrOf(configuration[k])])

\* write_cli_configuration: ["fakecmd", "--k1", str(v1), "--k2", str(v2), ...]
\* with the items in the dict's order, given as keys
RECURSIVE cli_tokens(_, _, _)
cli_tokens(configuration, keys, i) ==
    IF i > Len(keys) THEN <<>>
    ELSE <<Flag(keys[i]), Token(StrOf(configuration[keys[i]]).s)>>
             \o cli_tokens(configuration, keys, i + 1)

write_cli_configuration(configuration, keys) ==
    <<Word("fakecmd")>> \o cli_tokens(configuration, keys, 1)

\* write_ini_configuration: one section, header, holding str(value) per key
write_ini_configuration(header, configuration) ==
    Dict1(header, [k \in DOMAIN configuration |-> StrOf(configuration[k])])

Written(source, header, configuration) ==
    [source |-> source, header |-> header, configuration |-> configuration]
NoWritten == Written("", "", EmptyDict)

\* The orders of a dict's items: the sequences that list its keys once each
KeyOrders(d) ==
    {ks \in UNION {[1..n -> DOMAIN d] : n \in {Cardinality(DOMAIN d)}} :
        \A i \in DOMAIN ks, j \in DOMAIN ks : ks[i] = ks[j] => i = j}

\* A test writes its configuration to one source (tests/strategies.py lines
\* 18-46; the file is c.ini)
WriteConfiguration(source, header, configuration, keys) ==
    /\ pc = "build"
    /\ environ' = IF source = "ENV"
                  THEN write_env_configuration(environ, configuration)
                  ELSE environ
    /\ argv' = IF source = "CLI"
               THEN write_cli_configuration(configuration, keys)
               ELSE argv
    /\ files' = IF source = "CFG"
                THEN Dict1("c.ini", write_ini_configuration(header, configuration))
                ELSE files
    /\ written' = Written(source, header, configuration)
    /\ pc' = "ready"
    /\ UNCHANGED <<heap, result, lastop, nops, loaded, builder, factory, ret, emitted,
                   prev, passes, atbind>>

-----------------------------------------------------------------------------
(* Inputs *)

\* Lists of distinct Interpreters
DistinctLists ==
    {<<x>> : x \in Interps}
    \cup {l \in {<<x, y>> : x \in Interps, y \in Interps} : l[1] # l[2]}
    \cup {l \in {<<x, y, z>> : x \in Interps, y \in Interps, z \in Interps} :
              l[1] # l[2] /\ l[1] # l[3] /\ l[2] # l[3]}

EnvSamples == {EmptyDict, Dict2("a", StrV("e1"), "b", StrV("e2"))}

\* no argument; a flag without a value; a flag with two values and one with
\* a single value; a first argument that is no flag
ArgvSamples ==
    { <<Word("prog")>>,
      <<Word("prog"), Flag("a")>>,
      <<Word("prog"), Flag("a"), Word("c1"), Word("c2"), Flag("b"), Word("c3")>>,
      <<Word("prog"), Word("c1")>> }

NoFiles == [p \in {} |-> EmptyDict]
FileSamples ==
    { Dict1("c.ini", Dict1("S", Dict1("a", StrV("f1")))),
      Dict1("c.ini", Dict2("S", Dict2("a", StrV("f1"), "b", StrV("f2")),
                           "DEFAULT", Dict1("c", StrV("f3")))) }

\* no config_path; the file and a section it has; the file and a section it
\* lacks
ContextSamples == {Context("", "S"), Context("c.ini", "S"), Context("c.ini", "T")}

\* Field names, type functions and defaults of the schemas
ParamNames == {"a", "b"}
OptionNames == {"c"}
TypeNames == {"str", "int"}
OptionDefaults == {StrV("7"), NoneV}

\* configurable(None, ...) and configurable("S", ...)
SectionArgs == {"", "S"}

FoldStmt(list, op) == Stmt("fold", NoObj, op, NoObj, "", NoObj, list)
OrderArgs ==
    { NoOrder,
      FoldStmt(<<ENV, CFG, CLI>>, "gt"),
      FoldStmt(<<ENV, CFG, CLI>>, "lt"),
      FoldStmt(<<CFG>>, "gt") }

ResolveEnvSamples == {EmptyDict, Dict2("a", StrV("7"), "c", StrV("e1"))}
ResolveArgvSamples ==
    { <<Word("prog")>>,
      <<Word("prog"), Flag("a"), Word("8"), Flag("b")>>,
      <<Word("prog"), Word("x")>> }
ResolveFileSamples ==
    { Dict1("c.ini", Dict2("S", Dict2("a", StrV("9"), "b", StrV("f1")),
                           "T", Dict2("b", StrV("f2"), "c", StrV("5")))) }

\* _filepath and _section of a call; "" stands for None
FilepathArgs == {"", "c.ini"}
SectionOverrides == {"", "T"}
OverrideSamples ==
    { EmptyDict,
      Dict1("a", IntV(1)),
      Dict1("c", StrV("o")),
      Dict2("b", NoneV, "z", StrV("o")) }

\* Configurations as tests/strategies.py configurations() draws them:
\* lower-case keys, values that are strings or integers
ConfigurationKeys == {"a", "b"}
ConfigurationValues == {StrV("x"), StrV("--x"), IntV(5)}
Configurations ==
    UNION {[ks -> ConfigurationValues] : ks \in (SUBSET ConfigurationKeys) \ {{}}}

\* Section headers of the written file
Headers == {"S", "DEFAULT"}

\* Orders of one source: the bare Interpreter (what reduce gives for a
\* one-element list) and ResolutionDefinition(X)
SingleOrders ==
    {FoldStmt(<<x>>, "gt") : x \in Interps}
        \cup {Stmt("init", NoObj, "", NoObj, "", NoObj, <<x>>) : x \in Interps}

\* Argument vectors: the program name followed by up to MaxArgs tokens
ArgTokens == {Flag("a"), Flag("b"), Word("1"), Word("2")}
ArgvsUpTo(n) ==
    {<<Word("prog")>> \o rest : rest \in UNION {[1..m -> ArgTokens] : m \in 0..n}}

\* Field names given to the builder, the empty name among them
SchemaNames == {"", "a"}

\* Files of two extensions, one registered and one not, with the same
\* INI content
FormatFileSamples ==
    { Dict2("c.ini", Dict2("S", Dict2("a", StrV("9"), "b", StrV("f1")),
                           "T", Dict2("b", StrV("f2"), "c", StrV("5"))),
            "c.xyz", Dict2("S", Dict2("a", StrV("9"), "b", StrV("f1")),
                           "T", Dict2("b", StrV("f2"), "c", StrV("5")))) }
FormatFilepathArgs == {"", "c.ini", "c.xyz"}
OutputPaths == {"o.ini", "o.conf", "o.xyz"}

-----------------------------------------------------------------------------
(* Specifications *)

\* The state after import: no order built, no decorator applied
InitOrder ==
    /\ heap = <<>>
    /\ result = NoObj
    /\ lastop = NoStmt
    /\ nops = 0
    /\ environ = EmptyDict
    /\ argv = <<Word("prog")>>
    /\ files = NoFiles
    /\ loaded = NoLoad
    /\ pc = "build"
    /\ builder = NoBuilder
    /\ factory = NoFactory
    /\ ret = NoCall
    /\ written = NoWritten
    /\ emitted = NoEmit
    /\ prev = NoCall
    /\ passes = <<>>
    /\ atbind = NoBinding

\* The order algebra: any comparison of two objects, any comparison chain of
\* three Interpreters
NextOrder ==
    /\ nops < MaxOps
    /\ \/ \E lhs \in Objects(heap), op \in Ops, rhs \in Objects(heap) :
              EvalCompare(lhs, op, rhs)
       \/ \E a \in Interps, b \in Interps, c \in Interps, op1 \in Ops, op2 \in Ops :
              EvalChained(a, op1, b, op2, c)

SpecOrder == InitOrder /\ [][NextOrder]_vars

\* Orders built by folds and comparisons, then loaded once
NextLoad ==
    \/ /\ nops < MaxBuild
       /\ \/ \E list \in DistinctLists, op \in Ops : EvalFold(list, op)
          \/ \E lhs \in Objects(heap), op \in Ops, rhs \in Objects(heap) :
                 EvalCompare(lhs, op, rhs)
    \/ \E env \in EnvSamples, args \in ArgvSamples, fs \in FileSamples :
           SetWorld(env, args, fs)
    \/ \E target \in Objects(heap), context \in ContextSamples :
           EvalLoad(target, context)

SpecLoad == InitOrder /\ [][NextLoad]_vars

\* A schema is built and bound, the inputs are put in place, and the
\* factory is parsed or called once
NextResolve ==
    \/ \E name \in ParamNames, type \in TypeNames : DecorateParam(name, type)
    \/ \E name \in OptionNames, type \in TypeNames, default \in OptionDefaults :
           DecorateOption(name, type, default)
    \/ \E config_section \in SectionArgs, order \in OrderArgs :
           Bind(config_section, order)
    \/ /\ factory.bound
       /\ \E env \in ResolveEnvSamples, args \in ResolveArgvSamples,
             fs \in ResolveFileSamples : SetWorld(env, args, fs)
    \/ \E section \in SectionOverrides, filepath \in FilepathArgs,
          ignore_options \in BOOLEAN, overrides \in OverrideSamples :
           EvalParse(section, filepath, ignore_options, overrides)
    \/ \E section \in SectionOverrides, filepath \in FilepathArgs,
          overrides \in OverrideSamples :
           EvalCall(section, filepath, overrides)

SpecResolve == InitOrder /\ [][NextResolve]_vars

\* The round trip of the tests: a schema of parameters is built and bound
\* to an order of one source, a configuration is written to a source, and
\* the factory is called
NextRoundTrip ==
    \/ \E name \in ParamNames, type \in TypeNames : DecorateParam(name, type)
    \/ \E config_section \in SectionArgs, order \in SingleOrders :
           Bind(config_section, order)
    \/ /\ factory.bound
       /\ \E source \in InterpNames, header \in Headers,
             configuration \in Configurations :
             \E keys \in KeyOrders(configuration) :
                 WriteConfiguration(source, header, configuration, keys)
    \/ \E filepath \in FilepathArgs : EvalCall("", filepath, EmptyDict)

SpecRoundTrip == InitOrder /\ [][NextRoundTrip]_vars

\* The command line alone: sys.argv is set, then CLI is loaded
NextCli ==
    \/ \E args \in ArgvsUpTo(MaxArgs) : SetWorld(EmptyDict, args, NoFiles)
    \/ EvalLoad(CLI, Context("", ""))

SpecCli == InitOrder /\ [][NextCli]_vars

\* The schema alone: a builder is made directly or by a decorator, fields
\* are added by decorators and by the builder's methods, and configurable
\* is applied
NextSchema ==
    \/ NewBuilder
    \/ \E name \in SchemaNames, type \in TypeNames : DecorateParam(name, type)
    \/ \E name \in SchemaNames, type \in TypeNames, default \in OptionDefaults :
           DecorateOption(name, type, default)
    \/ \E name \in SchemaNames, type \in TypeNames : AddParameter(name, type)
    \/ \E name \in SchemaNames, type \in TypeNames, default \in OptionDefaults :
           AddOption(name, type, default)
    \/ \E config_section \in SectionArgs : Bind(config_section, NoOrder)

SpecSchema == InitOrder /\ [][NextSchema]_vars

\* File formats: a schema is built and bound with the default order, files
\* of a registered and of an unregistered extension are in place, and the
\* factory is called on a file or emits to an output path
NextFormats ==
    \/ \E name \in ParamNames, type \in TypeNames : DecorateParam(name, type)
    \/ \E name \in OptionNames, type \in TypeNames, default \in OptionDefaults :
           DecorateOption(name, type, default)
    \/ \E config_section \in SectionArgs : Bind(config_section, NoOrder)
    \/ /\ factory.bound
       /\ \E env \in ResolveEnvSamples, fs \in FormatFileSamples :
              SetWorld(env, <<Word("prog")>>, fs)
    \/ \E section \in SectionOverrides, filepath \in FormatFilepathArgs,
          overrides \in OverrideSamples :
           EvalCall(section, filepath, overrides)
    \/ \E output_path \in OutputPaths, section \in SectionOverrides,
          filepath \in FormatFilepathArgs, ignore_options \in BOOLEAN,
          overrides \in OverrideSamples :
           EvalEmit(output_path, section, filepath, ignore_options, overrides)

SpecFormats == InitOrder /\ [][NextFormats]_vars

\* Emission and back: a schema of parameters is bound to the file source
\* alone or to the default order, the factory emits to o.ini, and is then
\* called
EmitOverrideSamples ==
    { EmptyDict,
      Dict1("a", StrV("x")),
      Dict1("a", IntV(5)),
      Dict2("a", StrV("x"), "b", IntV(5)) }

NextEmitParse ==
    \/ \E name \in ParamNames, type \in TypeNames : DecorateParam(name, type)
    \/ \E config_section \in SectionArgs, order \in {NoOrder, FoldStmt(<<CFG>>, "gt")} :
           Bind(config_section, order)
    \/ /\ factory.bound
       /\ \E env \in ResolveEnvSamples, fs \in ResolveFileSamples :
              SetWorld(env, <<Word("prog")>>, fs)
    \/ \E section \in SectionOverrides, filepath \in FilepathArgs,
          overrides \in EmitOverrideSamples :
           EvalEmit("o.ini", section, filepath, TRUE, overrides)
    \/ Again
    \/ /\ prev.op = "emit"
       /\ \E section \in SectionOverrides, filepath \in {"c.ini", "o.ini"} :
              EvalCall(section, filepath, EmptyDict)

SpecEmitParse == InitOrder /\ [][NextEmitParse]_vars

\* partial: a schema is built and bound, the inputs are put in place,
\* partial() is called, and the object it returned is invoked while the
\* inputs are changed
ChangedFileSamples ==
    { NoFiles,
      Dict1("c.ini", Dict1("S", Dict2("a", StrV("1"), "c", StrV("f9")))) }

NextPartial ==
    \/ \E name \in ParamNames : DecorateParam(name, "str")
    \/ \E default \in OptionDefaults : DecorateOption("c", "int", default)
    \/ \E config_section \in SectionArgs,
          order \in {NoOrder, FoldStmt(<<ENV, CFG, CLI>>, "gt")} :
           Bind(config_section, order)
    \/ /\ factory.bound
       /\ \E env \in ResolveEnvSamples, args \in ResolveArgvSamples,
             fs \in ResolveFileSamples : SetWorld(env, args, fs)
    \/ \E section \in SectionOverrides, overrides \in OverrideSamples :
           EvalPartial(section, "c.ini", overrides)
    \/ \E env \in ResolveEnvSamples, args \in ResolveArgvSamples,
          fs \in ChangedFileSamples : ChangeWorld(env, args, fs)
    \/ Invoke

SpecPartial == InitOrder /\ [][NextPartial]_vars

\* Type functions that fail: fields typed int or by the lookup, sources
\* holding values the type functions accept and values they reject
FailingTypeNames == {"int", "key"}
TypeEnvSamples ==
    { Dict2("a", StrV("lo"), "c", StrV("hi")),
      Dict2("a", StrV("nope"), "c", StrV("7")),
      Dict2("a", StrV("7"), "c", StrV("nope")) }

NextTypes ==
    \/ \E name \in ParamNames, type \in FailingTypeNames : DecorateParam(name, type)
    \/ \E type \in FailingTypeNames, default \in OptionDefaults :
           DecorateOption("c", type, default)
    \/ \E config_section \in SectionArgs : Bind(config_section, NoOrder)
    \/ /\ factory.bound
       /\ \E env \in TypeEnvSamples, fs \in ResolveFileSamples :
              SetWorld(env, <<Word("prog")>>, fs)
    \/ \E filepath \in FilepathArgs, ignore_options \in BOOLEAN,
          overrides \in OverrideSamples :
           EvalParse("", filepath, ignore_options, overrides)

SpecTypes == InitOrder /\ [][NextTypes]_vars

\* After the binding: an order is built, a schema is bound to it, then the
\* order is composed further and the builder is decorated again, and the
\* factory is parsed
RebindEnvSamples == {Dict2("a", StrV("7"), "c", StrV("e1"))}
RebindOverrideSamples == {EmptyDict, Dict1("b", StrV("o"))}

NextRebind ==
    \/ /\ nops < MaxBuild
       /\ \E lhs \in Objects(heap), op \in Ops, rhs \in Interps :
              EvalCompare(lhs, op, rhs)
    \/ \E name \in ParamNames : DecorateParam(name, "str")
    \/ \E default \in OptionDefaults : DecorateOption("c", "str", default)
    \/ \E o \in Chains(heap) : BindNoting("S", o)
    \/ /\ factory.bound
       /\ \E env \in RebindEnvSamples, fs \in ResolveFileSamples :
              SetWorld(env, <<Word("prog")>>, fs)
    \/ \E ignore_options \in BOOLEAN, overrides \in RebindOverrideSamples :
           EvalParse("", "c.ini", ignore_options, overrides)

SpecRebind == InitOrder /\ [][NextRebind]_vars

\* Two resolves in a row: a schema is built and bound, the inputs are put
\* in place, and the factory is parsed, called, emitted or curried, twice
RepeatOverrideSamples == {EmptyDict, Dict1("a", IntV(1))}

NextRepeat ==
    \/ \E name \in ParamNames : DecorateParam(name, "str")
    \/ \E default \in OptionDefaults : DecorateOption("c", "int", default)
    \/ \E config_section \in SectionArgs : Bind(config_section, NoOrder)
    \/ /\ factory.bound
       /\ \E env \in ResolveEnvSamples, fs \in ResolveFileSamples :
              SetWorld(env, <<Word("prog")>>, fs)
    \/ \E section \in SectionOverrides, filepath \in FilepathArgs,
          ignore_options \in BOOLEAN, overrides \in RepeatOverrideSamples :
           EvalParse(section, filepath, ignore_options, overrides)
    \/ \E section \in SectionOverrides, filepath \in FilepathArgs,
          overrides \in RepeatOverrideSamples :
           EvalCall(section, filepath, overrides)
    \/ \E section \in SectionOverrides, filepath \in FilepathArgs,
          overrides \in RepeatOverrideSamples :
           EvalEmit("o.ini", section, filepath, TRUE, overrides)
    \/ \E section \in SectionOverrides, filepath \in FilepathArgs,
          overrides \in RepeatOverrideSamples :
           EvalPartial(section, filepath, overrides)
    \/ Again

SpecRepeat == InitOrder /\ [][NextRepeat]_vars

-----------------------------------------------------------------------------
(* What the claims speak of *)

\* The names of the Interpreters an object loads, in the order it loads
\* them: a chain's elements left to right, a nested chain's in its place.
\* fuel bounds the nesting followed (a chain may contain itself).
RECURSIVE SourcesOf(_, _, _), SourcesFrom(_, _, _, _)
SourcesOf(h, o, fuel) ==
    IF IsInterp(o) THEN <<o.name>>
    ELSE IF fuel = 0 THEN <<>>
    ELSE SourcesFrom(h, h[o.id], 1, fuel - 1)

SourcesFrom(h, list, i, fuel) ==
    IF i > Len(list) THEN <<>>
    ELSE SourcesOf(h, list[i], fuel) \o SourcesFrom(h, list, i + 1, fuel)

LoadOrder(h, o) == SourcesOf(h, o, Len(h) + 1)

NoRepeat(seq) == \A i \in 1..Len(seq), j \in 1..Len(seq) : seq[i] = seq[j] => i = j
Range(seq) == {seq[i] : i \in 1..Len(seq)}

\* What the named source returns under a context
OutputAt(name, context) == Interpreter_load(TheWorld, name, context).map

\* What the named source returned in the last load
OutputOf(name) == OutputAt(name, loaded.context)

LoadReturned == pc = "done" /\ loaded.out.status = "ok"

\* m takes every key of the listed sources, with the value of the last
\* listed source that has the key
LastWinsAt(m, srcs, context) ==
    /\ DOMAIN m = UNION {DOMAIN OutputAt(srcs[i], context) : i \in 1..Len(srcs)}
    /\ \A k \in DOMAIN m :
           \E i \in 1..Len(srcs) :
               /\ k \in DOMAIN OutputAt(srcs[i], context)
               /\ \A j \in (i + 1)..Len(srcs) : k \notin DOMAIN OutputAt(srcs[j], context)
               /\ m[k] = OutputAt(srcs[i], context)[k]

LastWins(m, srcs) == LastWinsAt(m, srcs, loaded.context)

Reverse(seq) == [i \in 1..Len(seq) |-> seq[Len(seq) + 1 - i]]
NamesOf(list) == [i \in 1..Len(list) |-> list[i].name]

-----------------------------------------------------------------------------
(* C1 *)

-----------------------------------------------------------------------------
(* C2 *)

\* The last statement built the object that was then loaded
LoadedLastBuilt == LoadReturned /\ loaded.target = result

-----------------------------------------------------------------------------
(* C3 *)

\* C3: with the order ENV > CFG, a key present both in the environment and
\* in the configuration file resolves to the environment's value.
C3_GtLeftOperandWins ==
    (/\ LoadedLastBuilt
     /\ lastop.kind = "cmp" /\ lastop.op1 = "gt"
     /\ lastop.a = ENV /\ lastop.b = CFG) =>
        \A k \in DOMAIN OutputOf("ENV") \cap DOMAIN OutputOf("CFG") :
            loaded.out.map[k] = OutputOf("ENV")[k]

-----------------------------------------------------------------------------
(* C4 *)

\* The factory was parsed or called
Resolved == pc = "done" /\ ret.op # "none"

\* The context of the resolve
ResolveContext == Factory_context(factory, ret.section, ret.filepath)

\* The sources the factory's order loads, in load order
FactorySources == LoadOrder(heap, factory.configuration_order)

\* C4: a factory bound with no order resolves with the chain
\* CommandLine > ConfigFile > Environment: all three sources are loaded, the
\* command line's values over the file's, the file's over the environment's.
C4_DefaultOrderIsCliCfgEnv ==
    (factory.bound /\ factory.order = NoOrder) =>
        /\ Range(FactorySources) = {"ENV", "CFG", "CLI"}
        /\ (/\ Resolved
            /\ \A n \in {"ENV", "CFG", "CLI"} :
                   Interpreter_load(TheWorld, n, ResolveContext).status = "ok")
           => LastWinsAt(ret.merged.map, <<"ENV", "CFG", "CLI">>, ResolveContext)

-----------------------------------------------------------------------------
(* C5 *)

\* C5: X > X and X < X raise InvalidOrdering, and so does the three-way
\* X > Y > X, for all sources X and Y.
C5_DuplicateOperandRaises ==
    /\ (lastop.kind = "cmp" /\ IsInterp(lastop.a) /\ lastop.b = lastop.a) =>
           result = Exc("InvalidOrdering")
    /\ (lastop.kind = "chained" /\ lastop.op1 = "gt" /\ lastop.op2 = "gt"
            /\ lastop.c = lastop.a) =>
           result = Exc("InvalidOrdering")

-----------------------------------------------------------------------------
(* C6 *)

\* C6: in every chain built by compositions, no source appears twice,
\* directly or through a nested chain.
C6_NoSourceTwice ==
    \A c \in Chains(heap) : NoRepeat(LoadOrder(heap, c))

-----------------------------------------------------------------------------
(* C7 *)

\* C7: for a source S and a chain C not containing S, S > C and S < C yield
\* a chain holding S and all of C's sources.
C7_SourceComposesWithChain ==
    [][(/\ lastop'.kind = "cmp" /\ nops' = nops + 1
        /\ IsInterp(lastop'.a) /\ IsChain(lastop'.b)
        /\ lastop'.a.name \notin Range(LoadOrder(heap, lastop'.b)))
       => (/\ IsChain(result')
           /\ Range(LoadOrder(heap', result')) =
                  {lastop'.a.name} \cup Range(LoadOrder(heap, lastop'.b)))]_vars

-----------------------------------------------------------------------------
(* C8 *)

\* The load of the resolve returned a mapping
MergedReturned == Resolved /\ ret.merged.status = "ok"

\* The parameter p of the schema is in no source of the chain and not in
\* the overrides
ParamMissing(p) ==
    /\ MergedReturned
    /\ p \in Names(builder.parameters)
    /\ \A n \in Range(FactorySources) : p \notin DOMAIN OutputAt(n, ResolveContext)
    /\ p \notin DOMAIN ret.overrides

\* A parameter registered before p is present and its type function raises e
EarlierParamRaises(p, e) ==
    \E i \in 1..(IndexOf(builder.parameters, p) - 1) :
        LET q == builder.parameters[i]
        IN  /\ q.name \in DOMAIN ret.merged.map
            /\ Coerce(q.type, ret.merged.map[q.name]) = BadVal(e)

-----------------------------------------------------------------------------
(* C9 *)

\* The resolve returned and did not skip the options
OptionsResolved == MergedReturned /\ ret.out.status = "ok" /\ ~ret.ignore_options

\* C9: in a resolve that returns, an option that is in no source of the
\* chain comes out as its declared default, unconverted, and an option
\* that is in the merged mapping comes out as its type function applied to
\* the raw value (overridden options aside).
C9_OptionDefaultVerbatim ==
    OptionsResolved =>
        \A i \in 1..Len(builder.options) :
            LET o == builder.options[i]
            IN  o.name \notin DOMAIN ret.overrides =>
                    /\ (\A n \in Range(FactorySources) :
                            o.name \notin DOMAIN OutputAt(n, ResolveContext))
                       => ret.out.map[o.name] = o.default
                    /\ o.name \in DOMAIN ret.merged.map
                       => OkVal(ret.out.map[o.name]) =
                              Coerce(o.type, ret.merged.map[o.name])

\* An option of type int whose default is the string "7" was in no source
\* and came out as the string "7".
C9_Witness ==
    /\ OptionsResolved
    /\ Len(builder.options) = 1
    /\ builder.options[1] = Option("c", "int", StrV("7"))
    /\ "c" \notin DOMAIN ret.merged.map
    /\ "c" \notin DOMAIN ret.overrides
    /\ ret.out.map["c"] = StrV("7")

-----------------------------------------------------------------------------
(* C10 *)

\* C10: in every resolve that returns, each key of the overrides maps to
\* the override value itself, whatever the chain gave for the key and
\* whether or not the schema declares it; a call passes the same on.
C10_OverridesVerbatim ==
    (Resolved /\ ret.out.status = "ok") =>
        /\ \A k \in DOMAIN ret.overrides :
               /\ k \in DOMAIN ret.out.map
               /\ ret.out.map[k] = ret.overrides[k]
        /\ ret.op = "call" => (ret.called /\ ret.passed = ret.out.map)

\* A resolve returned in which the override None replaced the value the
\* chain had for the declared parameter b, and the undeclared key z was
\* passed through.
C10_Witness ==
    /\ Resolved /\ ret.out.status = "ok"
    /\ ret.overrides = Dict2("b", NoneV, "z", StrV("o"))
    /\ "b" \in Names(builder.parameters)
    /\ "b" \in DOMAIN ret.merged.map
    /\ ret.merged.map["b"] # NoneV
    /\ ret.out.map["b"] = NoneV
    /\ ret.out.map["z"] = StrV("o")

-----------------------------------------------------------------------------
(* C11 *)

\* The names the schema declares
FieldNames == Names(builder.parameters) \cup Names(builder.options)

\* C11: with an override given for the one field of a schema, the resolve
\* returns the override value for it, whatever raw value the sources hold
\* for the field.
C11_OverrideWinsWhateverTheSources ==
    \A k \in DOMAIN ret.overrides :
        (MergedReturned /\ FieldNames = {k}) =>
            /\ ret.out.status = "ok"
            /\ ret.out.map[k] = ret.overrides[k]

-----------------------------------------------------------------------------
(* C12 *)

\* The schema declares exactly the keys of the written configuration as
\* parameters, each with the type of its value
SchemaOf(configuration) ==
    /\ builder.options = <<>>
    /\ Names(builder.parameters) = DOMAIN configuration
    /\ \A k \in DOMAIN configuration :
           Field(builder.parameters, k).type = TypeOf(configuration[k])

\* The factory, bound to an order whose one source is the source written
\* to and to the section written, was called (with the file when the source
\* is the file)
RoundTrip ==
    /\ Resolved /\ ret.op = "call"
    /\ written.source # ""
    /\ FactorySources = <<written.source>>
    /\ SchemaOf(written.configuration)
    /\ written.source = "CFG" =>
           (ret.filepath = "c.ini" /\ factory.section = written.header)

\* C12: a configuration written to one source and resolved through an order
\* of exactly that source (bare or a chain of one) comes back, every field
\* equal to the original entry.
C12_SingleSourceRoundTrip ==
    RoundTrip => ret.out = Returned(written.configuration)

-----------------------------------------------------------------------------
(* C13 *)

\* CLI was loaded and returned
CliReturned == LoadReturned /\ loaded.target = CLI

\* The positions of sys.argv, after the program name, that hold a flag
FlagPositions == {i \in 2..Len(argv) : argv[i].dd}

\* The position of the next flag after i, or one past the end
NextFlag(i) ==
    IF \E j \in FlagPositions : j > i
    THEN CHOOSE j \in FlagPositions : j > i /\ \A m \in FlagPositions : m > i => j <= m
    ELSE Len(argv) + 1

\* The tokens that follow the flag at i up to the next flag
Following(i) == [m \in 1..(NextFlag(i) - i - 1) |-> argv[i + m].text]

\* null for no token, the string for one, the ordered list for more
ValueOfTokens(ts) ==
    IF Len(ts) = 0 THEN NoneV
    ELSE IF Len(ts) = 1 THEN StrV(ts[1])
    ELSE ListV(ts)

\* The flag at i is the last one of its key
LastOfKey(i) == \A j \in FlagPositions : argv[j].text = argv[i].text => j <= i

-----------------------------------------------------------------------------
(* C14 *)

\* The values given to key k anywhere on the command line, in order of
\* appearance, from position i on
RECURSIVE ValuesFrom(_, _)
ValuesFrom(k, i) ==
    IF i > Len(argv) THEN <<>>
    ELSE (IF argv[i].dd /\ argv[i].text = k THEN Following(i) ELSE <<>>)
             \o ValuesFrom(k, i + 1)

\* The flag of key k is given more than once
GivenAgain(k) == Cardinality({i \in FlagPositions : argv[i].text = k}) > 1

\* C14: a flag given more than once (--server host1 --server host2) yields
\* the list of all the values of that key, in order of appearance.
C14_RepeatedFlagCollects ==
    CliReturned =>
        \A k \in DOMAIN loaded.out.map :
            (GivenAgain(k) /\ Len(ValuesFrom(k, 2)) > 1) =>
                loaded.out.map[k] = ListV(ValuesFrom(k, 2))

-----------------------------------------------------------------------------
(* C15 *)

\* The section a resolve is to read: the call's _section when given,
\* otherwise the one bound at configurable(...)
EffectiveSection == IF ret.section = "" THEN factory.section ELSE ret.section

\* The resolve loaded the file c.ini through an order that holds CFG
FileResolved ==
    /\ MergedReturned
    /\ ret.filepath = "c.ini"
    /\ "CFG" \in Range(FactorySources)

\* Key k comes from no source of the order but the file
OnlyInFile(k) ==
    \A n \in Range(FactorySources) \ {"CFG"} :
        k \notin DOMAIN OutputAt(n, ResolveContext)

\* C15: the file is read at the call's _section when one is given and at
\* the bound section otherwise: every key of that section is in the loaded
\* mapping, with the section's value when no other source has the key, and
\* the file's other sections contribute nothing.
C15_SectionOverrideSelects ==
    FileResolved =>
        /\ EffectiveSection \in DOMAIN files["c.ini"]
        /\ \A k \in DOMAIN files["c.ini"][EffectiveSection] :
               /\ k \in DOMAIN ret.merged.map
               /\ OnlyInFile(k) =>
                      ret.merged.map[k] = files["c.ini"][EffectiveSection][k]
        /\ \A k \in DOMAIN ret.merged.map :
               OnlyInFile(k) => k \in DOMAIN files["c.ini"][EffectiveSection]

\* A factory bound to section S was called with _section = T and returned
\* T's value for b, which differs from S's.
C15_Witness ==
    /\ FileResolved
    /\ ret.op = "call" /\ ret.called
    /\ factory.section = "S" /\ ret.section = "T"
    /\ "b" \in Names(builder.parameters)
    /\ files["c.ini"]["S"]["b"] # files["c.ini"]["T"]["b"]
    /\ ret.out.map["b"] = files["c.ini"]["T"]["b"]

-----------------------------------------------------------------------------
(* C16 *)

\* C16: adding a parameter or an option with an empty name fails, and the
\* schema gains no field of that name.
C16_EmptyNameRejected == "" \notin FieldNames

-----------------------------------------------------------------------------
(* C17 *)

\* The step is a call of add_parameter / add_option
AddsParameter == lastop'.kind = "add_parameter" /\ lastop' # lastop
AddsOption == lastop'.kind = "add_option" /\ lastop' # lastop

\* After the step, fields' holds the field f under its name, every other
\* name as in fields and in the same place, one entry per name, and one
\* entry more than fields only when the name is new
Replaced(fields, fields2, f) ==
    /\ Names(fields2) = Names(fields) \cup {f.name}
    /\ Len(fields2) = Cardinality(Names(fields2))
    /\ Field(fields2, f.name) = f
    /\ \A i \in 1..Len(fields) : fields2[i].name = fields[i].name
    /\ \A i \in 1..Len(fields) : fields[i].name # f.name => fields2[i] = fields[i]
    /\ Len(fields2) = IF f.name \in Names(fields) THEN Len(fields) ELSE Len(fields) + 1

-----------------------------------------------------------------------------
(* C18 *)

\* C18: configurable(...) binds only a schema to which a parameter or an
\* option has been added; applied to a bare callable or to a builder with
\* no field it raises ValueError.
C18_BindNeedsFields ==
    [][(factory'.bound /\ ~factory.bound) => FieldNames # {}]_vars

-----------------------------------------------------------------------------
(* C19 *)

\* The factory emitted, and the resolve that emit performs returned
EmitResolved == pc = "done" /\ ret.op = "emit" /\ ret.out.status = "ok"

Registered(registry, extension) ==
    \E i \in DOMAIN registry : registry[i] = extension

\* C19: when the resolve of an emit returns and the output path's extension
\* has no registered emitter, emit raises KeyError, its message lists the
\* registered extensions, and nothing is written to the path.
C19_UnregisteredEmitterRaises ==
    (EmitResolved /\ ~Registered(EMISSION_REGISTRY, Suffix(emitted.output_path))) =>
        /\ emitted.out.status = "raise"
        /\ emitted.out.exc = "KeyError"
        /\ emitted.out.listed = <<".ini", ".conf">>
        /\ emitted.output_path \notin DOMAIN files

\* An emit to o.xyz whose resolve returned a parameter's value raised,
\* listing .ini and .conf.
C19_Witness ==
    /\ EmitResolved
    /\ emitted.output_path = "o.xyz"
    /\ DOMAIN ret.out.map # {}
    /\ emitted.out = EmitRaised("KeyError", <<".ini", ".conf">>)

-----------------------------------------------------------------------------
(* C20 *)

\* C20: resolving with a configuration file whose extension has no
\* registered parser fails with an error that lists the supported
\* extensions.
C20_UnregisteredParserRaises ==
    (/\ pc = "done" /\ ret.op # "none"
     /\ ret.filepath # ""
     /\ ~Registered(PARSING_REGISTRY, Suffix(ret.filepath))
     /\ "CFG" \in Range(FactorySources)) =>
        ret.merged.status = "raise"

-----------------------------------------------------------------------------
(* C21 *)

\* The value parse gives the declared parameter p: the override when the
\* sources lack p, otherwise the type function applied to the loaded value
\* unless overridden
ParameterValue(p) ==
    IF p.name \in DOMAIN ret.overrides
    THEN ret.overrides[p.name]
    ELSE Coerce(p.type, ret.merged.map[p.name]).val

\* C21 (as amended): an emit called with _ignore_options left at True hands
\* the emitter a mapping whose keys are the declared parameters and the
\* override keys, each parameter with its resolved value; a declared option
\* is in it only when overridden; and an emitter that returns has written
\* exactly these keys.
C21_EmitIgnoresOptionsByDefault ==
    (EmitResolved /\ ret.ignore_options) =>
        /\ DOMAIN ret.out.map = Names(builder.parameters) \cup DOMAIN ret.overrides
        /\ \A i \in 1..Len(builder.parameters) :
               ret.out.map[builder.parameters[i].name] =
                   ParameterValue(builder.parameters[i])
        /\ \A i \in 1..Len(builder.options) :
               builder.options[i].name \in DOMAIN ret.out.map =>
                   builder.options[i].name \in DOMAIN ret.overrides
        /\ emitted.out.status = "ok" =>
               DOMAIN files[emitted.output_path][EffectiveSection] = DOMAIN ret.out.map

\* An emit with _ignore_options at True wrote a file without the declared
\* option c, although a source had a value for c.
C21_Witness ==
    /\ EmitResolved /\ ret.ignore_options
    /\ emitted.out.status = "ok"
    /\ Len(builder.options) = 1
    /\ Len(builder.parameters) > 0
    /\ "c" \in DOMAIN ret.merged.map
    /\ "c" \notin DOMAIN ret.out.map

\* C21 (as stated): every emit hands the emitter a declared option only
\* when the option is among the overrides.
C21_EmitAlwaysIgnoresOptions ==
    EmitResolved =>
        \A i \in 1..Len(builder.options) :
            builder.options[i].name \in DOMAIN ret.out.map =>
                builder.options[i].name \in DOMAIN ret.overrides

-----------------------------------------------------------------------------
(* C22 *)

\* The section a resolve used: the one given, or the bound one
SectionOf(call) == IF call.section = "" THEN factory.section ELSE call.section

\* The mapping holds, for every declared parameter, a value of the
\* parameter's type (a str for str, an int for int)
WellTyped(map) ==
    \A i \in 1..Len(builder.parameters) :
        builder.parameters[i].name \in DOMAIN map =>
            map[builder.parameters[i].name].tag = builder.parameters[i].type

\* An emit wrote its file under a section, and the factory, which reads the
\* file source alone, was then called on that file for the same section
EmittedThenCalled ==
    /\ prev.op = "emit" /\ prev.out.status = "ok"
    /\ emitted.out.status = "ok"
    /\ ret.op = "call"
    /\ ret.filepath = emitted.out.path
    /\ SectionOf(ret) = SectionOf(prev)
    /\ InterpreterOrder(heap, factory.configuration_order) = <<CFG>>
    /\ WellTyped(prev.out.map)

\* C22 (as stated): the call on the emitted file, for the section it was
\* emitted under, returns, and every value it returns is the value that was
\* emitted.
C22_EmitParseRoundTrip ==
    EmittedThenCalled =>
        /\ ret.out.status = "ok"
        /\ \A k \in DOMAIN ret.out.map : ret.out.map[k] = prev.out.map[k]

-----------------------------------------------------------------------------
(* C23 *)

\* What parse would return now, with the arguments partial() was given
ResolvedNow ==
    Factory_parse(heap, TheWorld, builder, factory, ret.section, ret.filepath,
                  FALSE, ret.overrides)

\* C23: every invocation of the object partial() returned passes the
\* callable the mapping parse returned when partial() ran, whatever the
\* environment, the argument vector and the files have become since; a
\* partial() whose parse raised returned nothing to invoke.
C23_PartialResolvesOnce ==
    ret.op = "partial" =>
        /\ \A i \in 1..Len(passes) : passes[i] = ret.out.map
        /\ ret.out.status # "ok" => passes = <<>>

\* The partial was invoked twice, and the inputs were changed after the
\* first invocation so that a parse would now return something else.
C23_Witness ==
    /\ ret.op = "partial" /\ ret.out.status = "ok"
    /\ Len(passes) = 2
    /\ ResolvedNow.status = "ok"
    /\ ResolvedNow.map # ret.out.map

-----------------------------------------------------------------------------
(* C24 *)

\* C24 (as stated): the load of the command line source returns a mapping,
\* whatever the argument vector.
C24_CliLoadTerminates ==
    (pc = "done" /\ loaded.target = CLI) => loaded.out.status = "ok"

-----------------------------------------------------------------------------
(* C25 *)

\* The exceptions the type functions of the fields raise on the loaded
\* values, in the order of the fields, from position i on
RECURSIVE TypeFailures(_, _, _)
TypeFailures(fields, raw_values, i) ==
    IF i > Len(fields) THEN <<>>
    ELSE LET f == fields[i]
             r == IF f.name \in DOMAIN raw_values
                  THEN Coerce(f.type, raw_values[f.name])
                  ELSE OkVal(NoneV)
         IN  (IF r.status = "raise" THEN <<r.exc>> ELSE <<>>)
                 \o TypeFailures(fields, raw_values, i + 1)

\* The failures parse meets, those of the parameters first
FailuresMet ==
    TypeFailures(builder.parameters, ret.merged.map, 1)
        \o (IF ret.ignore_options THEN <<>>
            ELSE TypeFailures(builder.options, ret.merged.map, 1))

\* A parse loaded a value for every parameter
AllParametersLoaded ==
    /\ Resolved /\ ret.merged.status = "ok"
    /\ Names(builder.parameters) \subseteq DOMAIN ret.merged.map

\* C25 (as stated): when a type function raises on a loaded value, the
\* parse raises that exception (the first one met), whether or not the
\* caller gave an override for the field.
C25_TypeFailurePropagates ==
    (AllParametersLoaded /\ FailuresMet # <<>>) =>
        /\ ret.out.status = "raise"
        /\ ret.out.exc = FailuresMet[1]

-----------------------------------------------------------------------------
(* C26 *)

\* The names parse puts in its result for the schema b: the parameters,
\* and the options unless _ignore_options is set
DeclaredNames(b) ==
    Names(b.parameters)
        \cup (IF ret.ignore_options THEN {} ELSE Names(b.options))

\* C26 (as stated): a resolve that returns has resolved the fields the
\* builder had when configurable(...) was applied: the keys of the result
\* are those fields and the override keys.
C26_BoundSchemaFixed ==
    (Resolved /\ ret.out.status = "ok") =>
        DOMAIN ret.out.map = DeclaredNames(atbind.builder) \cup DOMAIN ret.overrides

-----------------------------------------------------------------------------
(* C28 *)

\* C28: the keys of the mapping a resolve returns are the declared
\* parameters, the declared options unless _ignore_options is set, and the
\* override keys; a key of the loaded mapping that is none of these is not in
\* the result, and a call passes the callable this mapping.
C28_ResultKeysAreSchemaAndOverrides ==
    (Resolved /\ ret.out.status = "ok") =>
        /\ DOMAIN ret.out.map = DeclaredNames(builder) \cup DOMAIN ret.overrides
        /\ \A k \in DOMAIN ret.merged.map :
               k \notin DeclaredNames(builder) \cup DOMAIN ret.overrides =>
                   k \notin DOMAIN ret.out.map
        /\ ret.op = "call" => ret.called /\ ret.passed = ret.out.map

\* A call returned although the environment held a variable that the
\* schema does not declare and the caller did not override.
C28_Witness ==
    /\ Resolved /\ ret.out.status = "ok" /\ ret.op = "call"
    /\ "ENV" \in Range(FactorySources)
    /\ \E k \in DOMAIN environ :
           /\ k \in DOMAIN ret.merged.map
           /\ k \notin DeclaredNames(builder) \cup DOMAIN ret.overrides

-----------------------------------------------------------------------------
(* C27 *)

\* C27 (as stated): the order a factory was bound to keeps the sequence of
\* sources it had when the factory was bound.
C27_BoundChainFixed ==
    factory.bound =>
        InterpreterOrder(heap, factory.configuration_order) = atbind.order

-----------------------------------------------------------------------------
(* C29 *)

\* The last statement composed the chain lastop.a with lastop.b and raised
\* InvalidOrdering
CompositionRaised ==
    /\ lastop.kind = "cmp" /\ IsChain(lastop.a)
    /\ result = Exc("InvalidOrdering")

\* C29: a statement that raises InvalidOrdering leaves every chain that
\* existed before it as it was, and a composition of the same chain with a
\* source it does not hold, made right after, returns the chain with that
\* source added at the operator's end.
C29_FailedCompositionLeavesChain ==
    [][/\ (nops' = nops + 1 /\ result' = Exc("InvalidOrdering")) =>
              /\ Len(heap') = Len(heap)
              /\ \A i \in 1..Len(heap) : heap'[i] = heap[i]
       /\ (/\ CompositionRaised
           /\ lastop'.kind = "cmp" /\ lastop'.a = lastop.a
           /\ IsInterp(lastop'.b)
           /\ ~InList(lastop'.b, heap[lastop.a.id])) =>
              /\ result' = lastop.a
              /\ heap'[lastop.a.id] =
                     IF lastop'.op1 = "gt"
                     THEN Append(heap[lastop.a.id], lastop'.b)
                     ELSE <<lastop'.b>> \o heap[lastop.a.id]]_vars

\* A chain of two sources was composed with one it already holds, and the
\* statement raised InvalidOrdering.
C29_Witness ==
    /\ CompositionRaised
    /\ Len(heap[lastop.a.id]) = 2
    /\ InList(lastop.b, heap[lastop.a.id])
    /\ nops < MaxOps

-----------------------------------------------------------------------------
(* C30 *)

\* Two resolves were given the same section, file path, _ignore_options
\* and overrides
SameArguments(c1, c2) ==
    /\ c1.section = c2.section
    /\ c1.filepath = c2.filepath
    /\ c1.ignore_options = c2.ignore_options
    /\ c1.overrides = c2.overrides

\* C30: a parse, call, emit or partial leaves the builder, the factory
\* (its bound section and its order) and every chain as they were; what it
\* loads is read under the section and file path of this call, the bound
\* section when the call gives none, whatever the resolve before it was
\* given; and after a resolve that wrote nothing, a resolve with the same
\* arguments returns the same outcome.
C30_ResolveLeavesFactoryAlone ==
    [][(pc = "ready" /\ pc' = "done") =>
           /\ builder' = builder
           /\ factory' = factory
           /\ heap' = heap
           /\ ret'.merged =
                  RD_load(heap, TheWorld, factory.configuration_order,
                          Context(ret'.filepath,
                                  IF ret'.section = "" THEN factory.section
                                                       ELSE ret'.section))
           /\ (ret.op \in {"parse", "call", "partial"} /\ SameArguments(ret, ret')) =>
                  ret'.out = ret.out]_vars

\* The factory was called with a section and a file path, then called
\* again without them, and the second call returned something else: what
\* the environment alone gives.
C30_Witness ==
    /\ pc = "done"
    /\ prev.op = "call" /\ prev.section = "T" /\ prev.filepath = "c.ini"
    /\ prev.out.status = "ok"
    /\ ret.op = "call" /\ ret.section = "" /\ ret.filepath = ""
    /\ ret.out.status = "ok"
    /\ ret.out # prev.out
    /\ ret.merged.map = environ

=============================================================================
